---------------------------- MODULE Spec2Model ----------------------------
(***************************************************************************)
(* A model of sandbox/fast_internal.pyx: the evaluators bond_lengths,      *)
(* bond_angles and dihedral_angles with their Jacobians and Hessians, and  *)
(* of the harness core/test_fast_internal.ipy that calls them.             *)
(*                                                                         *)
(* Numbers.  A C double is modelled by an exact extended rational, carried *)
(* together with its derivative along the coordinate the harness           *)
(* displaces: <<n, e, d>> is the dual number (n + e*h)/d with h*h = 0, in  *)
(* lowest terms with d >= 0.  For d > 0 the value of the double is n/d and *)
(* e/d is the limit of the harness's difference quotient                   *)
(* (f(x + step) - f(x)) / step for step -> 0; <<1, 0, 0>> is +inf,         *)
(* <<-1, 0, 0>> is -inf and <<0, 0, 0>> is NaN.  Rounding is not modelled; *)
(* the frames are drawn so that every square root the code takes is exact. *)
(***************************************************************************)
EXTENDS Integers, Sequences, FiniteSets, TLC

(***************************************************************************)
(* Double arithmetic                                                       *)
(***************************************************************************)
Abs(x) == IF x < 0 THEN -x ELSE x

Sgn(x) == IF x < 0 THEN -1 ELSE IF x > 0 THEN 1 ELSE 0

RECURSIVE Gcd(_, _)
Gcd(a, b) == IF b = 0 THEN a ELSE Gcd(b, a % b)

Reduce(n, e, d, g) == <<n \div g, e \div g, d \div g>>

\* the dual number (n + e*h)/d in lowest terms, d >= 0; x/0 is +-inf, 0/0 is NaN
D(n, e, d) ==
    IF d = 0 THEN <<Sgn(n), 0, 0>>
    ELSE Reduce(n, e, d, Gcd(Gcd(Abs(n), Abs(e)), d))

DInt(k) == <<k, 0, 1>>

DZero == DInt(0)

DOne == DInt(1)

DNaN == <<0, 0, 0>>

DFinite(x) == x[3] # 0

DIsZero(x) == x[1] = 0 /\ x[3] # 0

\* the rational n/d in lowest terms as the pair <<n, d>>
Q(n, d) ==
    IF d = 0 THEN <<Sgn(n), 0>>
    ELSE <<n \div Gcd(Abs(n), d), d \div Gcd(Abs(n), d)>>

\* the value of the double
Re(x) == Q(x[1], x[3])

\* its derivative along the displaced coordinate
Ep(x) == Q(x[2], x[3])

\* x + y over the common denominator, g the divisor common to the two
AddOver(x, y, g) ==
    D(x[1] * (y[3] \div g) + y[1] * (x[3] \div g),
      x[2] * (y[3] \div g) + y[2] * (x[3] \div g),
      (x[3] \div g) * y[3])

DAdd(x, y) ==
    IF x[3] = 0 /\ y[3] = 0 THEN (IF x = y THEN x ELSE DNaN)
    ELSE AddOver(x, y, Gcd(x[3], y[3]))

DNeg(x) == <<-x[1], -x[2], x[3]>>

DSub(x, y) == DAdd(x, DNeg(y))

DMul(x, y) == D(x[1] * y[1], x[1] * y[2] + x[2] * y[1], x[3] * y[3])

\* 1/y as numpy divides: 1/0 is inf, 1/inf is 0, 1/NaN is NaN
DInv(y) ==
    IF y[3] = 0 THEN (IF y[1] = 0 THEN DNaN ELSE DZero)
    ELSE IF y[1] = 0 THEN <<1, 0, 0>>
    ELSE D(y[3] * y[1], -(y[3] * y[2]), y[1] * y[1])

\* x / y as numpy divides doubles: no exception, inf or NaN on a zero divisor
DDiv(x, y) == DMul(x, DInv(y))

RECURSIVE ISqrtIn(_, _, _)
ISqrtIn(n, lo, hi) ==
    IF lo >= hi THEN lo
    ELSE IF ((lo + hi + 1) \div 2) * ((lo + hi + 1) \div 2) <= n
         THEN ISqrtIn(n, (lo + hi + 1) \div 2, hi)
         ELSE ISqrtIn(n, lo, ((lo + hi + 1) \div 2) - 1)

\* the integer square root of n >= 0
ISqrt(n) == ISqrtIn(n, 0, IF n < 46340 THEN n ELSE 46340)

IsSquare(n) == n >= 0 /\ ISqrt(n) * ISqrt(n) = n

\* whether the square root of the rational <<n, d>> is a rational
QExactRoot(a) == a[2] = 0 \/ a[1] < 0 \/ (IsSquare(a[1]) /\ IsSquare(a[2]))

\* sqrt((n + e*h)/d) for n/d = (p/q)^2 and g = gcd(n, d): p/q + e/(2*g*p*q) * h
RootOver(n, e, g, p, q) == D(2 * n, e, 2 * g * p * q)

\* libc sqrt: NaN below zero; at zero the derivative is unbounded, and a
\* displaced zero is carried as NaN
DSqrt(x) ==
    IF x[3] = 0 THEN (IF x[1] > 0 THEN x ELSE DNaN)
    ELSE IF x[1] < 0 THEN DNaN
    ELSE IF x[1] = 0 THEN (IF x[2] = 0 THEN DZero ELSE DNaN)
    ELSE RootOver(x[1], x[2], Gcd(x[1], x[3]),
                  ISqrt(x[1] \div Gcd(x[1], x[3])), ISqrt(x[3] \div Gcd(x[1], x[3])))

\* q < 10^(-k) for a rational q >= 0, without forming 10^k
RECURSIVE DivPow10(_, _)
DivPow10(x, k) == IF k = 0 \/ x = 0 THEN x ELSE DivPow10(x \div 10, k - 1)

QBelowPow10(q, k) ==
    /\ q[2] # 0
    /\ (q[1] <= 0 \/ q[1] <= DivPow10(q[2] - 1, k))

(***************************************************************************)
(* Static functions for length-3 arrays.  A vector is <<x, y, z>>, a       *)
(* matrix the tuple of its three rows; the source's index k is k+1 here.   *)
(***************************************************************************)
\* the array of the three entries f[1], f[2], f[3]
Vec(f) == <<f[1], f[2], f[3]>>

\* the array of the three rows f[1], f[2], f[3]
Mat(f) == <<Vec(f[1]), Vec(f[2]), Vec(f[3])>>

VAdd(a, b) == Vec([k \in 1..3 |-> DAdd(a[k], b[k])])

VSub(a, b) == Vec([k \in 1..3 |-> DSub(a[k], b[k])])

VNeg(a) == Vec([k \in 1..3 |-> DNeg(a[k])])

VScale(a, s) == Vec([k \in 1..3 |-> DMul(a[k], s)])

VDiv(a, s) == Vec([k \in 1..3 |-> DDiv(a[k], s)])

VZero == <<DZero, DZero, DZero>>

MAdd(A, B) == Mat([i \in 1..3 |-> [j \in 1..3 |-> DAdd(A[i][j], B[i][j])]])

MSub(A, B) == Mat([i \in 1..3 |-> [j \in 1..3 |-> DSub(A[i][j], B[i][j])]])

MNeg(A) == Mat([i \in 1..3 |-> [j \in 1..3 |-> DNeg(A[i][j])]])

MScale(A, s) == Mat([i \in 1..3 |-> [j \in 1..3 |-> DMul(A[i][j], s)]])

MDiv(A, s) == Mat([i \in 1..3 |-> [j \in 1..3 |-> DDiv(A[i][j], s)]])

MT(A) == Mat([i \in 1..3 |-> [j \in 1..3 |-> A[j][i]]])

MZero == <<VZero, VZero, VZero>>

eye == <<<<DOne, DZero, DZero>>, <<DZero, DOne, DZero>>, <<DZero, DZero, DOne>>>>

dot3(v1, v2) ==
    DAdd(DAdd(DMul(v1[1], v2[1]), DMul(v1[2], v2[2])), DMul(v1[3], v2[3]))

norm3(v) == DSqrt(dot3(v, v))

\* norm3(v) < 10^(-k), decided on the square: sqrt is monotone
norm3_below(v, k) == QBelowPow10(Re(dot3(v, v)), 2 * k)

cross3(a, b) ==
    <<DSub(DMul(a[2], b[3]), DMul(a[3], b[2])),
      DSub(DMul(a[3], b[1]), DMul(a[1], b[3])),
      DSub(DMul(a[1], b[2]), DMul(a[2], b[1]))>>

\* result[i, j] = v1[i]*v2[j]
outer3(v1, v2) == Mat([i \in 1..3 |-> [j \in 1..3 |-> DMul(v1[i], v2[j])]])

\* result[i, j] = v1[i]*v2[j], less 1 on the diagonal
outer3_minus_eye(v1, v2) ==
    Mat([i \in 1..3 |-> [j \in 1..3 |->
            IF i = j THEN DSub(DMul(v1[i], v2[j]), DOne) ELSE DMul(v1[i], v2[j])]])

\* result[i, i] = 2*v1[i]*v2[i] and result[i, j] = v1[i]*v2[j] + v1[j]*v2[i]
sym_outer3(v1, v2) ==
    Mat([i \in 1..3 |-> [j \in 1..3 |->
            IF i = j THEN DMul(DMul(DInt(2), v1[i]), v2[i])
            ELSE DAdd(DMul(v1[i], v2[j]), DMul(v1[j], v2[i]))]])

splay3(v) ==
    <<<<DZero, DDiv(DNeg(v[3]), DInt(2)), DDiv(DNeg(v[2]), DInt(4))>>,
      <<DDiv(v[3], DInt(2)), DZero, DDiv(DNeg(v[1]), DInt(2))>>,
      <<DDiv(v[2], DInt(4)), DDiv(v[1], DInt(2)), DZero>>>>

sign3(i, j, k) == IF i = j THEN 1 ELSE IF i = k THEN -1 ELSE 0

sign6(a, b, c, i, j, k) == sign3(a, b, c) * sign3(i, j, k)

kron(i, j) == IF i = j THEN 1 ELSE 0

(***************************************************************************)
(* Arrays.  A frame xyz is the sequence of its rows, atom a being row a+1; *)
(* an index list is the sequence of its tuples, feature i of the source    *)
(* being entry i+1.  jacobian[f][a] is the row jacobian[f-1, a, :] and     *)
(* hessian[f][a][b] the 3x3 block hessian[f-1, a, :, b, :].                *)
(***************************************************************************)
AtomsOf(N) == 0 .. (N - 1)

\* xyz.shape[1] and ibonds.shape[1]; an array without rows keeps its declared width
Cols(arr, width) == IF Len(arr) = 0 THEN width ELSE Len(arr[1])

\* Python's index of a row: a negative index counts from the end
InRange(N, m) == m >= -N /\ m < N

Wrap(N, m) == IF m < 0 THEN m + N ELSE m

Row(xyz, m) == xyz[Wrap(Len(xyz), m) + 1]

None == "None"

Uninit == <<"uninit">>

\* the Jacobian allocated without being cleared: its entries left at one
AllocOnes(n, N, deriv) ==
    [exc      |-> "",
     at       |-> 0,
     values   |-> [f \in 1..n |-> Uninit],
     jacobian |-> IF deriv >= 1
                  THEN [f \in 1..n |-> [a \in AtomsOf(N) |-> <<DOne, DOne, DOne>>]]
                  ELSE None,
     hessian  |-> IF deriv = 2
                  THEN [f \in 1..n |-> [a \in AtomsOf(N) |-> [b \in AtomsOf(N) |-> MZero]]]
                  ELSE None]

\* the local arrays after "declare the output arrays"
Alloc(n, N, deriv) ==
    [exc      |-> "",
     at       |-> 0,
     values   |-> [f \in 1..n |-> Uninit],
     jacobian |-> IF deriv >= 1
                  THEN [f \in 1..n |-> [a \in AtomsOf(N) |-> VZero]]
                  ELSE None,
     hessian  |-> IF deriv = 2
                  THEN [f \in 1..n |-> [a \in AtomsOf(N) |-> [b \in AtomsOf(N) |-> MZero]]]
                  ELSE None]

\* an exception leaving the loop in feature f with the arrays as they are
Raise(st, exc, f) == [st EXCEPT !.exc = exc, !.at = f]

(***************************************************************************)
(* The body of a loop.  Its statements are run in their order on a record  *)
(* e: the arguments xyz and deriv, the feature f and its tuple t, the      *)
(* output arrays st, and the local variables under their names, each       *)
(* joined to the record by the statement that first assigns it.            *)
(***************************************************************************)
Locals(xyz, deriv, t, st, f) == [xyz |-> xyz, deriv |-> deriv, t |-> t, st |-> st, f |-> f]

\* the row xyz[t[k]] and the atom it is the row of
Xyz(e, k) == Row(e.xyz, e.t[k])

Atom(e, k) == Wrap(Len(e.xyz), e.t[k])

\* an exception has ended the loop
Stopped(e) == e.st.exc # ""

Throw(e, exc) == [e EXCEPT !.st = Raise(@, exc, e.f)]

(***************************************************************************)
(* bond_lengths: the body of the loop for feature f with tuple t = (m, n)  *)
(***************************************************************************)
\* u = xyz[m] - xyz[n]
BondVector(e) == e @@ [u |-> VSub(Xyz(e, 1), Xyz(e, 2))]

\* norm = norm3(u)
BondNorm(e) == e @@ [norm |-> norm3(e.u)]

\* bond_lengths[i] = norm
BondLength(e) == [e EXCEPT !.st.values[e.f] = e.norm]

\* "u = u / norm" with the length taken after it, from the unit vector
BondUnitLate(e) ==
    IF e.deriv < 1 THEN e
    ELSE [e EXCEPT !.u = VDiv(@, e.norm), !.st.values[e.f] = norm3(VDiv(e.u, e.norm))]

\* if deriv >= 1: u = u / norm
BondUnit(e) == IF e.deriv < 1 THEN e ELSE [e EXCEPT !.u = VDiv(@, e.norm)]

\* if deriv >= 1: the rows of m and n
BondJacobian(e) ==
    IF e.deriv < 1 THEN e
    ELSE [e EXCEPT !.st.jacobian[e.f] =
             [[@ EXCEPT ![Atom(e, 1)] = e.u] EXCEPT ![Atom(e, 2)] = VNeg(e.u)]]

\* hessian_term0 = outer3_minus_eye(u, u) / norm
BondTerm(e) ==
    IF e.deriv # 2 THEN e
    ELSE e @@ [hessian_term0 |-> MDiv(outer3_minus_eye(e.u, e.u), e.norm)]

\* if deriv == 2: the four blocks of m and n
BondHessian(e) ==
    IF e.deriv # 2 THEN e
    ELSE [e EXCEPT !.st.hessian[e.f] =
             [[[[@ EXCEPT ![Atom(e, 1)][Atom(e, 2)] = e.hessian_term0]
                   EXCEPT ![Atom(e, 1)][Atom(e, 1)] = MNeg(e.hessian_term0)]
                   EXCEPT ![Atom(e, 2)][Atom(e, 1)] = e.hessian_term0]
                   EXCEPT ![Atom(e, 2)][Atom(e, 2)] = MNeg(e.hessian_term0)]]

BondStep(xyz, deriv, t, st, f) ==
    IF ~(InRange(Len(xyz), t[1]) /\ InRange(Len(xyz), t[2]))
    THEN Raise(st, "IndexError", f)
    ELSE BondHessian(BondTerm(BondJacobian(BondUnit(BondLength(BondNorm(BondVector(
             Locals(xyz, deriv, t, st, f)))))))).st

\* libc acos, cos and sin on the angle acos(c), c in [-1, 1]: the angle is kept
\* as its cosine, cos(acos(c)) is c and sin(acos(c)) is sqrt(1 - c*c)
acos(c) == <<"acos", c>>

cos(angle) == angle[2]

sin(angle) == DSqrt(DSub(DOne, DMul(angle[2], angle[2])))

\* libc atan2(y, x), kept as its two arguments
atan2(y, x) == <<"atan2", y, x>>

\* the threshold 1e-10 of bond_angles, as the exponent of 10^(-10)
EpsExp == 10

\* for a in L: for b in L, in the order the loops visit the pairs
Pairs(L) ==
    [k \in 1 .. (Len(L) * Len(L)) |->
        <<L[((k - 1) \div Len(L)) + 1], L[((k - 1) % Len(L)) + 1]>>]

\* blk, then "if c != 0: blk += c * T" for each coefficient c and tensor T in turn
RECURSIVE AddTerms(_, _, _, _)
AddTerms(blk, cs, ts, k) ==
    IF k > Len(cs) THEN blk
    ELSE AddTerms(IF cs[k] # 0 THEN MAdd(blk, MScale(ts[k], DInt(cs[k]))) ELSE blk,
                  cs, ts, k + 1)

(***************************************************************************)
(* bond_angles: the body of the loop for feature f with tuple              *)
(* t = (m, o, n)                                                           *)
(***************************************************************************)
\* u_prime = xyz[m] - xyz[o]; v_prime = xyz[n] - xyz[o]
AngleVectors(e) ==
    e @@ [u_prime |-> VSub(Xyz(e, 1), Xyz(e, 2)), v_prime |-> VSub(Xyz(e, 3), Xyz(e, 2))]

AngleNorms(e) == e @@ [u_norm |-> norm3(e.u_prime), v_norm |-> norm3(e.v_prime)]

AngleUnits(e) == e @@ [u |-> VDiv(e.u_prime, e.u_norm), v |-> VDiv(e.v_prime, e.v_norm)]

\* bond_angles[i] = angle
AngleSet(e, angle) == [(e @@ [angle |-> angle]) EXCEPT !.st.values[e.f] = angle]

\* angle = acos(dot3(u_prime, v_prime) / (u_norm*v_norm)), a C division of
\* doubles (cdivision is off): a zero divisor raises
AngleValue(e) ==
    IF DIsZero(DMul(e.u_norm, e.v_norm)) THEN Throw(e, "ZeroDivisionError")
    ELSE AngleSet(e, acos(DDiv(dot3(e.u_prime, e.v_prime), DMul(e.u_norm, e.v_norm))))

\* the test of the antiparallel case alone
degenerate_antiparallel(u, v) == norm3_below(VAdd(u, v), EpsExp)

\* "norm3(u+v) < 1e-10 or norm3(u-v) < 1e-10": the unit vectors are
\* antiparallel or parallel
degenerate(u, v) == norm3_below(VAdd(u, v), EpsExp) \/ norm3_below(VSub(u, v), EpsExp)

\* if deriv >= 1: the refusal of a degenerate angle, else w_prime = cross3(u, v)
AngleCross(e) ==
    IF Stopped(e) \/ e.deriv < 1 THEN e
    ELSE IF degenerate(e.u, e.v) THEN Throw(e, "ValueError")
    ELSE e @@ [w_prime |-> cross3(e.u, e.v)]

\* w = w_prime / norm3(w_prime)
AngleNormal(e) ==
    IF Stopped(e) \/ e.deriv < 1 THEN e
    ELSE e @@ [w |-> VDiv(e.w_prime, norm3(e.w_prime))]

AngleJacobianTerms(e) ==
    IF Stopped(e) \/ e.deriv < 1 THEN e
    ELSE e @@ [jacobian_term0 |-> VDiv(cross3(e.u, e.w), e.u_norm),
               jacobian_term1 |-> VDiv(cross3(e.w, e.v), e.v_norm)]

\* the rows of m, n and o
AngleJacobian(e) ==
    IF Stopped(e) \/ e.deriv < 1 THEN e
    ELSE [e EXCEPT !.st.jacobian[e.f] =
             [[[@ EXCEPT ![Atom(e, 1)] = e.jacobian_term0]
                  EXCEPT ![Atom(e, 3)] = e.jacobian_term1]
                  EXCEPT ![Atom(e, 2)] = VNeg(VAdd(e.jacobian_term0, e.jacobian_term1))]]

\* if deriv == 2: cos_angle, sin_angle, uv, uu, vv
AngleOuter(e) ==
    IF Stopped(e) \/ e.deriv # 2 THEN e
    ELSE e @@ [cos_angle |-> cos(e.angle), sin_angle |-> sin(e.angle),
               uv |-> outer3(e.u, e.v), uu |-> outer3(e.u, e.u), vv |-> outer3(e.v, e.v)]

\* term1 .. term4, divided as numpy divides an array
AngleTerms(e) ==
    IF Stopped(e) \/ e.deriv # 2 THEN e
    ELSE e @@
         [term1 |-> MDiv(MAdd(MAdd(e.uv, MT(e.uv)),
                              MScale(MAdd(MScale(e.uu, DInt(-3)), eye), e.cos_angle)),
                         DMul(DMul(e.u_norm, e.u_norm), e.sin_angle)),
          term2 |-> MDiv(MAdd(MAdd(e.uv, MT(e.uv)),
                              MScale(MAdd(MScale(e.vv, DInt(-3)), eye), e.cos_angle)),
                         DMul(DMul(e.v_norm, e.v_norm), e.sin_angle)),
          term3 |-> MDiv(MSub(MSub(MAdd(e.uu, e.vv), MScale(e.uv, e.cos_angle)), eye),
                         DMul(DMul(e.u_norm, e.v_norm), e.sin_angle)),
          term4 |-> MDiv(MSub(MSub(MAdd(e.uu, e.vv), MScale(MT(e.uv), e.cos_angle)), eye),
                         DMul(DMul(e.u_norm, e.v_norm), e.sin_angle))]

\* the base term reading the block of the first feature, jacobian[0]
jacobian_0(st, f) == st.jacobian[1]

\* the block jacobian[i] the base term of the Hessian reads
jacobian_i(st, f) == st.jacobian[f]

\* np.outer(J, J).reshape(n_atoms, 3, n_atoms, 3) times coef
OuterBlocks(J, coef) ==
    [a \in DOMAIN J |-> [b \in DOMAIN J |-> MScale(outer3(J[a], J[b]), coef)]]

\* hessian[i] = -(cos_angle / sin_angle) * np.outer(jacobian[i], jacobian[i]),
\* the quotient a C division of doubles
AngleBase(e) ==
    IF Stopped(e) \/ e.deriv # 2 THEN e
    ELSE IF DIsZero(e.sin_angle) THEN Throw(e, "ZeroDivisionError")
    ELSE [e EXCEPT !.st.hessian[e.f] =
             OuterBlocks(jacobian_i(e.st, e.f), DNeg(DDiv(e.cos_angle, e.sin_angle)))]

\* the weight of term3 copied to term4
AngleSignsCopied(a, b, m, n, o) ==
    <<sign6(a, m, o, b, m, o), sign6(a, n, o, b, n, o),
      sign6(a, m, o, b, n, o), sign6(a, m, o, b, n, o)>>

\* the four sign6 weights of bond_angles for the pair (a, b)
AngleSigns(a, b, m, n, o) ==
    <<sign6(a, m, o, b, m, o), sign6(a, n, o, b, n, o),
      sign6(a, m, o, b, n, o), sign6(a, n, o, b, m, o)>>

\* hessian[i, a, :, b, :] += ... over the pairs ps[k..]
RECURSIVE AngleLoop(_, _, _, _, _, _, _, _)
AngleLoop(hf, ps, k, m, n, o, terms, N) ==
    IF k > Len(ps) THEN hf
    ELSE LET a  == ps[k][1]
             b  == ps[k][2]
         IN  AngleLoop([hf EXCEPT ![Wrap(N, a)][Wrap(N, b)] =
                            AddTerms(@, AngleSigns(a, b, m, n, o), terms, 1)],
                       ps, k + 1, m, n, o, terms, N)

\* for a in [m, n, o]: for b in [m, n, o]
AngleHessian(e) ==
    IF Stopped(e) \/ e.deriv # 2 THEN e
    ELSE [e EXCEPT !.st.hessian[e.f] =
             AngleLoop(@, Pairs(<<e.t[1], e.t[3], e.t[2]>>), 1, e.t[1], e.t[3], e.t[2],
                       <<e.term1, e.term2, e.term3, e.term4>>, Len(e.xyz))]

AngleStep(xyz, deriv, t, st, f) ==
    IF ~(InRange(Len(xyz), t[1]) /\ InRange(Len(xyz), t[2]) /\ InRange(Len(xyz), t[3]))
    THEN Raise(st, "IndexError", f)
    ELSE AngleHessian(AngleBase(AngleTerms(AngleOuter(
             AngleJacobian(AngleJacobianTerms(AngleNormal(AngleCross(
                 AngleValue(AngleUnits(AngleNorms(AngleVectors(
                     Locals(xyz, deriv, t, st, f))))))))))))).st

(***************************************************************************)
(* dihedral_angles: the body of the loop for feature f with tuple          *)
(* t = (m, o, p, n)                                                        *)
(***************************************************************************)
\* u_prime = xyz[m] - xyz[o]; v_prime = xyz[n] - xyz[p]; w_prime = xyz[p] - xyz[o]
DihedralVectors(e) ==
    e @@ [u_prime |-> VSub(Xyz(e, 1), Xyz(e, 2)),
          v_prime |-> VSub(Xyz(e, 4), Xyz(e, 3)),
          w_prime |-> VSub(Xyz(e, 3), Xyz(e, 2))]

DihedralNorms(e) ==
    e @@ [u_norm |-> norm3(e.u_prime), v_norm |-> norm3(e.v_prime),
          w_norm |-> norm3(e.w_prime)]

DihedralUnits(e) ==
    e @@ [u |-> VDiv(e.u_prime, e.u_norm), v |-> VDiv(e.v_prime, e.v_norm),
          w |-> VDiv(e.w_prime, e.w_norm)]

DihedralDots(e) == e @@ [dot_uw |-> dot3(e.u, e.w), dot_vw |-> dot3(e.v, e.w)]

\* dot_uw2, dot_vw2, and the cross products of the vectors as they are
DihedralCross(e) ==
    e @@ [dot_uw2 |-> DMul(e.dot_uw, e.dot_uw), dot_vw2 |-> DMul(e.dot_vw, e.dot_vw),
          cross_vw |-> cross3(e.v_prime, e.w_prime),
          cross_uw |-> cross3(e.u_prime, e.w_prime)]

\* dihedral_angles[i] = atan2(dot3(u_prime, cross_vw) * w_norm, dot3(cross_vw, cross_uw))
DihedralValue(e) ==
    [e EXCEPT !.st.values[e.f] =
        atan2(DMul(dot3(e.u_prime, e.cross_vw), e.w_norm), dot3(e.cross_vw, e.cross_uw))]

\* if deriv >= 1: cross_vw /= (v_norm * w_norm); cross_uw /= (u_norm * w_norm)
DihedralNormalize(e) ==
    IF e.deriv < 1 THEN e
    ELSE [e EXCEPT !.cross_vw = VDiv(@, DMul(e.v_norm, e.w_norm)),
                   !.cross_uw = VDiv(@, DMul(e.u_norm, e.w_norm))]

\* term1 .. term4
DihedralTerms(e) ==
    IF e.deriv < 1 THEN e
    ELSE e @@
         [term1 |-> VDiv(e.cross_uw, DMul(e.u_norm, DSub(DOne, e.dot_uw2))),
          term2 |-> VDiv(e.cross_vw, DMul(e.v_norm, DSub(DOne, e.dot_vw2))),
          term3 |-> VDiv(VScale(e.cross_uw, e.dot_uw),
                         DMul(e.w_norm, DSub(DOne, e.dot_uw2))),
          term4 |-> VDiv(VScale(VNeg(e.cross_vw), e.dot_vw),
                         DMul(e.w_norm, DSub(DOne, e.dot_vw2)))]

\* the rows of m, n, o and p
DihedralJacobian(e) ==
    IF e.deriv < 1 THEN e
    ELSE [e EXCEPT !.st.jacobian[e.f] =
             [[[[@ EXCEPT ![Atom(e, 1)] = e.term1]
                   EXCEPT ![Atom(e, 4)] = VNeg(e.term2)]
                   EXCEPT ![Atom(e, 2)] = VSub(VAdd(VNeg(e.term1), e.term3), e.term4)]
                   EXCEPT ![Atom(e, 3)] = VAdd(VSub(e.term2, e.term3), e.term4)]]

\* if deriv == 2: sin4_u and sin4_v
DihedralSin4(e) ==
    IF e.deriv # 2 THEN e
    ELSE e @@ [sin4_u |-> DMul(DSub(DOne, e.dot_uw2), DSub(DOne, e.dot_uw2)),
               sin4_v |-> DMul(DSub(DOne, e.dot_vw2), DSub(DOne, e.dot_vw2))]

\* ht1 .. ht7; the source computes
\* ht8 = splay3((-w*dot_vw - v) / (v_norm * w_norm * (1-dot_vw2))) and never uses it
DihedralHessianTerms(e) ==
    IF e.deriv # 2 THEN e
    ELSE e @@
         [ht1 |-> MDiv(sym_outer3(e.cross_uw, VSub(VScale(e.w, e.dot_uw), e.u)),
                       DMul(DMul(e.u_norm, e.u_norm), e.sin4_u)),
          ht2 |-> MDiv(sym_outer3(e.cross_vw, VSub(VScale(e.w, e.dot_vw), e.v)),
                       DMul(DMul(e.v_norm, e.v_norm), e.sin4_v)),
          ht3 |-> MDiv(sym_outer3(e.cross_uw,
                           VAdd(VSub(e.w, VScale(VScale(e.u, DInt(2)), e.dot_uw)),
                                VScale(e.w, e.dot_uw2))),
                       DMul(DMul(DMul(DInt(2), e.u_norm), e.w_norm), e.sin4_u)),
          ht4 |-> MDiv(sym_outer3(e.cross_vw,
                           VAdd(VSub(e.w, VScale(VScale(e.u, DInt(2)), e.dot_vw)),
                                VScale(e.w, e.dot_vw2))),
                       DMul(DMul(DMul(DInt(2), e.v_norm), e.w_norm), e.sin4_v)),
          ht5 |-> MDiv(sym_outer3(e.cross_uw,
                           VSub(VAdd(e.u, VScale(e.u, e.dot_uw2)),
                                VScale(e.w, DAdd(DMul(DInt(3), e.dot_uw), e.dot_uw2)))),
                       DMul(DMul(DMul(DInt(2), e.w_norm), e.w_norm), e.sin4_u)),
          ht6 |-> MDiv(sym_outer3(e.cross_vw,
                           VSub(VAdd(e.v, VScale(e.v, e.dot_vw2)),
                                VScale(e.w, DAdd(DMul(DInt(3), e.dot_vw), e.dot_uw2)))),
                       DMul(DMul(DMul(DInt(2), e.w_norm), e.w_norm), e.sin4_v)),
          ht7 |-> splay3(VDiv(VSub(VScale(e.w, e.dot_uw), e.u),
                              DMul(DMul(e.u_norm, e.w_norm), DSub(DOne, e.dot_uw2))))]

\* the eight integer coefficients m1..m8 of dihedral_angles for the pair (a, b)
DihedralCoefs(a, b, m, n, o, p) ==
    <<sign6(a, m, o, b, m, o),
      sign6(a, n, p, b, n, p),
      sign6(a, m, o, b, o, p) + sign6(a, p, o, b, o, p),
      sign6(a, n, p, b, p, o) + sign6(a, p, o, b, n, o),
      sign6(a, o, p, b, p, o),
      sign6(a, o, p, b, o, p),
      (1 - kron(a, b)) * (sign6(a, m, o, b, o, p) + sign6(a, p, o, b, o, m)),
      (1 - kron(a, b)) * (sign6(a, n, o, b, o, p) + sign6(a, p, o, b, o, m))>>

\* hessian[i, a, :, b, :] = factor over the pairs ps[k..]
RECURSIVE DihedralLoop(_, _, _, _, _, _, _, _, _)
DihedralLoop(hf, ps, k, m, n, o, p, hts, N) ==
    IF k > Len(ps) THEN hf
    ELSE LET a == ps[k][1]
             b == ps[k][2]
         IN  DihedralLoop([hf EXCEPT ![Wrap(N, a)][Wrap(N, b)] =
                              AddTerms(MZero, DihedralCoefs(a, b, m, n, o, p), hts, 1)],
                          ps, k + 1, m, n, o, p, hts, N)

\* for a in [m, n, o, p]: for b in [m, n, o, p], m7 and m8 both weighting ht7
DihedralHessian(e) ==
    IF e.deriv # 2 THEN e
    ELSE [e EXCEPT !.st.hessian[e.f] =
             DihedralLoop(@, Pairs(<<e.t[1], e.t[4], e.t[2], e.t[3]>>), 1,
                          e.t[1], e.t[4], e.t[2], e.t[3],
                          <<e.ht1, e.ht2, e.ht3, e.ht4, e.ht5, e.ht6, e.ht7, e.ht7>>,
                          Len(e.xyz))]

DihedralStep(xyz, deriv, t, st, f) ==
    IF ~(/\ InRange(Len(xyz), t[1]) /\ InRange(Len(xyz), t[2])
         /\ InRange(Len(xyz), t[3]) /\ InRange(Len(xyz), t[4]))
    THEN Raise(st, "IndexError", f)
    ELSE DihedralHessian(DihedralHessianTerms(DihedralSin4(
             DihedralJacobian(DihedralTerms(DihedralNormalize(
                 DihedralValue(DihedralCross(DihedralDots(DihedralUnits(
                     DihedralNorms(DihedralVectors(
                         Locals(xyz, deriv, t, st, f))))))))))))).st

(***************************************************************************)
(* The three evaluators                                                    *)
(***************************************************************************)
Arity(fam) == CASE fam = "bond" -> 2 [] fam = "angle" -> 3 [] OTHER -> 4

\* the body of the loop of the evaluator of family fam
Step(fam, xyz, deriv, t, st, f) ==
    CASE fam = "bond"  -> BondStep(xyz, deriv, t, st, f)
      [] fam = "angle" -> AngleStep(xyz, deriv, t, st, f)
      [] OTHER         -> DihedralStep(xyz, deriv, t, st, f)

\* "for i in range(n)": the features in turn; an exception ends the loop
RECURSIVE Loop(_, _, _, _, _, _)
Loop(fam, xyz, idx, deriv, st, f) ==
    IF f > Len(idx) \/ st.exc # "" THEN st
    ELSE Loop(fam, xyz, idx, deriv, Step(fam, xyz, deriv, idx[f], st, f), f + 1)

\* what a call gives its caller: the returned tuple, or the exception raised
\* (with the local arrays as the exception left them, which no caller sees)
Outcome(st, deriv) ==
    IF st.exc # ""
    THEN [status |-> "raised", exc |-> st.exc, at |-> st.at,
          values |-> st.values, jacobian |-> st.jacobian, hessian |-> st.hessian]
    ELSE [status |-> "returned", exc |-> "", at |-> 0,
          values |-> st.values, jacobian |-> st.jacobian, hessian |-> st.hessian]

Failed(exc) ==
    [status |-> "raised", exc |-> exc, at |-> 0,
     values |-> None, jacobian |-> None, hessian |-> None]

\* the checks that open each evaluator: "" when the arguments pass
Check(fam, xyz, idx, deriv) ==
    IF Cols(xyz, 3) # 3 THEN "TypeError"
    ELSE IF Cols(idx, Arity(fam)) # Arity(fam) THEN "TypeError"
    ELSE IF ~(deriv = 0 \/ deriv = 1 \/ deriv = 2) THEN "ValueError"
    ELSE ""

Evaluate(fam, xyz, idx, deriv) ==
    IF Check(fam, xyz, idx, deriv) # "" THEN Failed(Check(fam, xyz, idx, deriv))
    ELSE Outcome(Loop(fam, xyz, idx, deriv, Alloc(Len(idx), Len(xyz), deriv), 1), deriv)

bond_lengths(xyz, ibonds, deriv) == Evaluate("bond", xyz, ibonds, deriv)

bond_angles(xyz, iangles, deriv) == Evaluate("angle", xyz, iangles, deriv)

dihedral_angles(xyz, idihedrals, deriv) == Evaluate("dihedral", xyz, idihedrals, deriv)

(***************************************************************************)
(* The inputs of the harness                                               *)
(***************************************************************************)
\* index values run from -OutOfRange to n_atoms - 1 + OutOfRange
OutOfRange == 1

\* an index list holds at most MaxFeatures tuples
MaxFeatures == 2

\* the harness asks for the orders 0 .. MaxDeriv
MaxDeriv == 3

\* the harness displaces the atoms 0 .. MaxFDAtom
MaxFDAtom == 0

P(x, y, z) == <<DInt(x), DInt(y), DInt(z)>>

\* a skew chain 0-1-2-3 with bonds of lengths 5, 1 and 5
FrameSkew == <<P(3, 0, 4), P(0, 0, 0), P(0, 0, 1), P(0, 3, 5)>>

\* a chain in general position, every bond of length 3
FrameGeneric == <<P(2, 1, 2), P(0, 0, 0), P(1, 2, 2), P(3, 4, 3)>>

\* a right angle 0-1-2, atom 3 at the place of atom 2
FrameCoincident == <<P(1, 0, 0), P(0, 0, 0), P(0, 0, 1), P(0, 0, 1)>>

\* a right angle 0-1-2, atom 3 on the line through 1 and 2
FrameLine == <<P(1, 0, 0), P(0, 0, 0), P(0, 0, 1), P(0, 0, 2)>>

Frames == {FrameSkew, FrameGeneric, FrameCoincident, FrameLine}

Families == {"bond", "angle", "dihedral"}

IdxVals(N) == (0 - OutOfRange) .. (N - 1 + OutOfRange)

\* the value the code takes the square root of is the square of a rational
ExactNorm(v) == QExactRoot(Re(dot3(v, v)))

\* every square root the evaluator takes on tuple t is exact
ExactRoots(fam, xyz, t) ==
    LET N == Len(xyz)
    IN  IF \E k \in 1..Len(t) : ~InRange(N, t[k]) THEN TRUE
        ELSE IF fam = "bond" THEN ExactNorm(VSub(Row(xyz, t[1]), Row(xyz, t[2])))
        ELSE IF fam = "angle"
        THEN LET u == VSub(Row(xyz, t[1]), Row(xyz, t[2]))
                 v == VSub(Row(xyz, t[3]), Row(xyz, t[2]))
             IN  /\ ExactNorm(u)
                 /\ ExactNorm(v)
                 /\ \/ DIsZero(dot3(u, u))
                    \/ DIsZero(dot3(v, v))
                    \/ QExactRoot(Re(DDiv(dot3(cross3(u, v), cross3(u, v)),
                                          DMul(dot3(u, u), dot3(v, v)))))
        ELSE /\ ExactNorm(VSub(Row(xyz, t[1]), Row(xyz, t[2])))
             /\ ExactNorm(VSub(Row(xyz, t[4]), Row(xyz, t[3])))
             /\ ExactNorm(VSub(Row(xyz, t[3]), Row(xyz, t[2])))

\* the tuples the model evaluates: pairwise different index values, at most
\* one of them outside [0, n_atoms)
Tuples(fam, xyz) ==
    {t \in [1..Arity(fam) -> IdxVals(Len(xyz))] :
        /\ \A j, k \in 1..Arity(fam) :
              j # k => /\ t[j] # t[k]
                       /\ t[j] \in AtomsOf(Len(xyz)) \/ t[k] \in AtomsOf(Len(xyz))
        /\ ExactRoots(fam, xyz, t)}

\* the tuple of the harness: ibonds [0,1], iangles [0,1,2], idihedrals [0,1,2,3]
Base(fam) == [k \in 1..Arity(fam) |-> k - 1]

\* the index lists: the empty list, and the tuple of the harness repeated and
\* followed by any tuple
IndexLists(fam, xyz) ==
    {<<>>} \cup
    IF Base(fam) \in Tuples(fam, xyz)
    THEN {[k \in 1..L |-> IF k = L THEN t ELSE Base(fam)] :
            <<L, t>> \in (1..MaxFeatures) \X Tuples(fam, xyz)}
    ELSE {<<t>> : t \in Tuples(fam, xyz)}

\* arrays of the wrong shape: a frame of two columns, tuples of the wrong width
Malformed ==
    {[fam |-> fam, xyz |-> <<<<DZero, DZero>>, <<DOne, DZero>>>>, idx |-> <<Base(fam)>>] :
        fam \in Families}
    \cup
    {[fam |-> fam, xyz |-> FrameGeneric, idx |-> <<<<0, 1, 2, 3, 0>>>>] : fam \in Families}

Inputs ==
    Malformed \cup
    UNION {UNION {{[fam |-> fam, xyz |-> xyz, idx |-> idx] : idx \in IndexLists(fam, xyz)} :
                     xyz \in Frames} : fam \in Families}

(***************************************************************************)
(* The harness: one input, the calls of the evaluator at the orders        *)
(* 0, 1, .. in turn, then the finite-difference test of the notebook       *)
(***************************************************************************)
VARIABLES input, res, fd, par

vars == <<input, res, fd, par>>

\* the evaluator of the input at order deriv
Eval(in, deriv) == Evaluate(in.fam, in.xyz, in.idx, deriv)

Init ==
    /\ input \in Inputs
    /\ res = <<>>
    /\ fd = <<>>
    /\ par = <<>>

\* the next call: res[d + 1] is what the call at order d gave
Call(d) ==
    /\ d = Len(res)
    /\ res' = Append(res, Eval(input, d))
    /\ UNCHANGED <<input, fd, par>>

\* "xyz2[a, k] += step", the step being the infinitesimal of the dual numbers
Displace(xyz, a, k) == [xyz EXCEPT ![a + 1][k] = DAdd(@, <<0, 1, 1>>)]

\* the finite-difference test on coordinate k of atom a, after the calls,
\* for an index list of one tuple as in the notebook: the evaluator is
\* called at order 2 on the displaced frame
FiniteDifference(a, k) ==
    /\ fd = <<>>
    /\ Len(input.idx) = 1
    /\ Len(res) > 2
    /\ res[3].status = "returned"
    /\ a < Len(input.xyz)
    /\ fd' = <<[atom |-> a, comp |-> k,
                call2 |-> Eval([input EXCEPT !.xyz = Displace(@, a, k)], 2)]>>
    /\ UNCHANGED <<input, res, par>>

\* "(j2 - j) / step" for entry [f, b, j] of the Jacobian, in the limit of a small step
Quotient(f, b, j) == Ep(DSub(fd[1].call2.jacobian[f][b][j], res[3].jacobian[f][b][j]))

Next ==
    \/ \E d \in 0..MaxDeriv : Call(d)
    \/ \E a \in 0..MaxFDAtom, k \in 1..3 : FiniteDifference(a, k)

Spec == Init /\ [][Next]_vars

(***************************************************************************)
(* The loop over the features run as independent tasks.  The harness calls *)
(* the evaluator at order d, which runs the loop in sequence, and starts a *)
(* second run of the same call after its checks and its allocation; there  *)
(* the bodies of the loop run one feature at a time in any order, and an   *)
(* exception ends the run                                                  *)
(***************************************************************************)
ParBegin(d) ==
    /\ par = <<>>
    /\ Check(input.fam, input.xyz, input.idx, d) = ""
    /\ res' = <<Eval(input, d)>>
    /\ par' = <<[deriv |-> d, done |-> {},
                 st |-> Alloc(Len(input.idx), Len(input.xyz), d)]>>
    /\ UNCHANGED <<input, fd>>

ParStep(f) ==
    /\ par # <<>>
    /\ par[1].st.exc = ""
    /\ f \in 1..Len(input.idx)
    /\ f \notin par[1].done
    /\ par' = <<[deriv |-> par[1].deriv, done |-> par[1].done \cup {f},
                 st |-> Step(input.fam, input.xyz, par[1].deriv, input.idx[f],
                             par[1].st, f)]>>
    /\ UNCHANGED <<input, res, fd>>

ParNext ==
    \/ \E d \in 0..MaxDeriv : ParBegin(d)
    \/ \E f \in 1..MaxFeatures : ParStep(f)

\* the index lists of MaxFeatures tuples
ParInit ==
    /\ input \in {in \in Inputs : Len(in.idx) = MaxFeatures}
    /\ res = <<>>
    /\ fd = <<>>
    /\ par = <<>>

ParSpec == ParInit /\ [][ParNext]_vars

(***************************************************************************)
(* Vocabulary of the properties                                            *)
(***************************************************************************)
Features == 1..Len(input.idx)

Atoms == AtomsOf(Len(input.xyz))

\* the arguments pass the shape checks
WellFormed == Check(input.fam, input.xyz, input.idx, 0) = ""

\* the atoms the tuple of feature f names, a negative index m naming atom
\* n_atoms + m as the indexing of the evaluators does
Named(f) == {Wrap(Len(input.xyz), input.idx[f][k]) : k \in 1..Len(input.idx[f])}

\* the call at order d was made and returned its arrays
Returned(d) == Len(res) > d /\ res[d + 1].status = "returned"

Symmetric(h) == \A f \in Features : \A a, b \in Atoms : h[f][a][b] = MT(h[f][b][a])

\* the sum of the rows jf[t[1]], .., jf[t[k]]
RECURSIVE SumRows(_, _, _)
SumRows(jf, t, k) ==
    IF k = 0 THEN VZero
    ELSE VAdd(SumRows(jf, t, k - 1), jf[Wrap(Len(input.xyz), t[k])])

\* the bonds t[1]-t[2] and t[3]-t[2] have a length and lie on one line
DegenerateTriple(xyz, t) ==
    /\ \A k \in 1..3 : InRange(Len(xyz), t[k])
    /\ LET u == VSub(Row(xyz, t[1]), Row(xyz, t[2]))
           v == VSub(Row(xyz, t[3]), Row(xyz, t[2]))
       IN  /\ ~DIsZero(dot3(u, u))
           /\ ~DIsZero(dot3(v, v))
           /\ \A k \in 1..3 : DIsZero(cross3(u, v)[k])

\* every entry of the index list is in [0, n_atoms)
InDomain == \A f \in Features : \A k \in 1..Len(input.idx[f]) : input.idx[f][k] \in Atoms

\* no entry of the Jacobian and the Hessian of the call at order d is a NaN
\* or an infinity
AllFinite(d) ==
    \A f \in Features : \A a \in Atoms : \A k \in 1..3 :
        /\ DFinite(res[d + 1].jacobian[f][a][k])
        /\ d = 2 => \A b \in Atoms : \A j \in 1..3 :
                       DFinite(res[d + 1].hessian[f][a][b][k][j])

ZeroRows == [a \in Atoms |-> VZero]

ZeroBlocks == [a \in Atoms |-> [b \in Atoms |-> MZero]]

(***************************************************************************)
(* C1: for every feature of a dihedral_angles call at order 2 and every    *)
(* pair of atoms a, b, the Hessian block of (a, b) is the transpose of     *)
(* the block of (b, a); stated for index lists within [0, n_atoms) and     *)
(* Hessians without NaN or infinity                                        *)
(***************************************************************************)
DihedralHessianSymmetric ==
    (input.fam = "dihedral" /\ InDomain /\ Returned(2) /\ AllFinite(2))
    => Symmetric(res[3].hessian)

(***************************************************************************)
(* C2: for every feature of a bond_lengths or bond_angles call at order 2  *)
(* and every pair of atoms a, b, the Hessian block of (a, b) is the        *)
(* transpose of the block of (b, a)                                        *)
(***************************************************************************)
BondAngleHessianSymmetric ==
    (input.fam \in {"bond", "angle"} /\ Returned(2)) => Symmetric(res[3].hessian)

\* an angle Hessian with a block off the diagonal that the weighted terms fill
BondAngleHessianSymmetricWitness ==
    /\ input.fam = "angle"
    /\ Returned(2)
    /\ \E f \in Features : \E a, b \in Atoms :
          /\ a # b
          /\ res[3].hessian[f][a][b] # MZero
          /\ res[3].hessian[f][a][b] # res[3].hessian[f][a][a]
          /\ res[3].hessian[f][a][b] = MT(res[3].hessian[f][b][a])

(***************************************************************************)
(* C3: sparsity.  In the arrays an evaluator returns, the Jacobian row of  *)
(* every atom the tuple of the feature does not name is zero, and a        *)
(* Hessian block is zero unless the tuple names both of its atoms          *)
(***************************************************************************)
Sparsity ==
    \A d \in 1..2 : Returned(d) =>
        \A f \in Features : \A a \in Atoms \ Named(f) :
            /\ res[d + 1].jacobian[f][a] = VZero
            /\ d = 2 => \A b \in Atoms :
                           /\ res[d + 1].hessian[f][a][b] = MZero
                           /\ res[d + 1].hessian[f][b][a] = MZero

\* an angle call at order 2 with an atom outside the tuple and a block inside it
SparsityWitness ==
    /\ input.fam = "angle"
    /\ Returned(2)
    /\ \E f \in Features :
          /\ Atoms \ Named(f) # {}
          /\ \E a, b \in Named(f) : res[3].hessian[f][a][b] # MZero
          /\ \E a \in Named(f) : res[3].jacobian[f][a] # VZero

(***************************************************************************)
(* C4: force balance.  For every feature of a bond_angles or               *)
(* dihedral_angles call that returns at order >= 1, the Jacobian rows of   *)
(* the atoms of the tuple sum to the zero vector; stated for index lists   *)
(* within [0, n_atoms)                                                     *)
(***************************************************************************)
ForceBalance ==
    \A d \in 1..2 : (input.fam \in {"angle", "dihedral"} /\ InDomain /\ Returned(d)) =>
        \A f \in Features :
            SumRows(res[d + 1].jacobian[f], input.idx[f], Len(input.idx[f])) = VZero

(***************************************************************************)
(* C5: when an entry of the index list is outside [0, n_atoms), every      *)
(* call of the evaluator fails and returns no array                        *)
(***************************************************************************)
IndexRangeChecked ==
    (\E f \in Features : \E k \in 1..Len(input.idx[f]) :
        input.idx[f][k] \notin AtomsOf(Len(input.xyz)))
    => \A d \in 0..2 : Len(res) > d => res[d + 1].status = "raised"

(***************************************************************************)
(* C6: a bond between two atoms at the same place makes bond_lengths fail  *)
(* at order >= 1 instead of returning the quotient by the zero norm        *)
(***************************************************************************)
CoincidentBondRejected ==
    (/\ input.fam = "bond"
     /\ WellFormed
     /\ \E f \in Features :
           /\ \A k \in 1..2 : input.idx[f][k] \in Atoms
           /\ input.idx[f][1] # input.idx[f][2]
           /\ Row(input.xyz, input.idx[f][1]) = Row(input.xyz, input.idx[f][2]))
    => \A d \in 1..2 : Len(res) > d => res[d + 1].status = "raised"

(***************************************************************************)
(* C7: degenerate rejection in bond_angles.  For a triple whose two bonds  *)
(* are parallel or antiparallel, a call at order >= 1 raises before any    *)
(* Jacobian or Hessian entry of that feature is written and returns        *)
(* nothing, and the call at order 0 is not failed by that feature and      *)
(* returns the angle 0 or pi for it                                        *)
(***************************************************************************)
DegenerateRejected ==
    (input.fam = "angle" /\ WellFormed) =>
    \A f \in Features : DegenerateTriple(input.xyz, input.idx[f]) =>
        /\ Len(res) > 0 =>
              \/ /\ res[1].status = "returned"
                 /\ res[1].values[f] \in {acos(DOne), acos(DNeg(DOne))}
              \/ /\ res[1].status = "raised"
                 /\ res[1].at # f
        /\ \A d \in 1..2 : Len(res) > d =>
              /\ res[d + 1].status = "raised"
              /\ res[d + 1].at \in 1..f
              /\ res[d + 1].at = f =>
                    /\ res[d + 1].exc = "ValueError"
                    /\ res[d + 1].jacobian[f] = ZeroRows
                    /\ d = 2 => res[d + 1].hessian[f] = ZeroBlocks

\* a collinear triple after a feature that was written: order 0 returned both
\* angles, the orders 1 and 2 were refused at the collinear triple
DegenerateRejectedWitness ==
    /\ input.fam = "angle"
    /\ Len(res) > 2
    /\ Len(input.idx) = 2
    /\ DegenerateTriple(input.xyz, input.idx[2])
    /\ res[1].status = "returned"
    /\ res[2].status = "raised" /\ res[2].at = 2 /\ res[2].jacobian[1] # ZeroRows
    /\ res[3].status = "raised" /\ res[3].at = 2

(***************************************************************************)
(* C8 as stated: for every input, the call at order 1 returns the value    *)
(* array the call at order 0 returns; stated for index lists within        *)
(* [0, n_atoms)                                                            *)
(***************************************************************************)
OrderConsistency ==
    (Len(res) > 1 /\ InDomain /\ res[1].status = "returned") =>
        /\ res[2].status = "returned"
        /\ res[2].values = res[1].values

(***************************************************************************)
(* C8 as amended: whenever the call at order 1 returns, the call at order  *)
(* 0 returns the same value array; and the call at order 1 fails where     *)
(* the call at order 0 returns only by the refusal of a bond_angles        *)
(* triple whose bonds are parallel or antiparallel                         *)
(***************************************************************************)
OrderConsistencyAmended ==
    Len(res) > 1 =>
        /\ res[2].status = "returned" =>
              /\ res[1].status = "returned"
              /\ res[1].values = res[2].values
        /\ (res[1].status = "returned" /\ res[2].status = "raised") =>
              /\ input.fam = "angle"
              /\ res[2].exc = "ValueError"
              /\ DegenerateTriple(input.xyz, input.idx[res[2].at])

\* a dihedral call at order 1, whose cross products are normalised in place
\* after the value is taken, gave the values of the call at order 0
OrderConsistencyWitness ==
    /\ input.fam = "dihedral"
    /\ Len(input.idx) = 2
    /\ Returned(0)
    /\ Returned(1)
    /\ res[2].values = res[1].values
    /\ \E a \in Atoms : res[2].jacobian[2][a] # VZero

(***************************************************************************)
(* C9: the finite-difference law of the Hessian.  The quotient             *)
(* (jacobian(x + step) - jacobian(x)) / step for the displaced coordinate  *)
(* of the displaced atom equals, in the limit of a small step, the slice   *)
(* of the Hessian returned at x; stated for index lists within             *)
(* [0, n_atoms) and arrays without NaN or infinity                         *)
(***************************************************************************)
FiniteDifferenceLaw ==
    (fd # <<>> /\ InDomain /\ fd[1].call2.status = "returned" /\ AllFinite(2)) =>
        \A f \in Features : \A b \in Atoms : \A j \in 1..3 :
            DFinite(fd[1].call2.jacobian[f][b][j]) =>
                Quotient(f, b, j) = Re(res[3].hessian[f][fd[1].atom][b][fd[1].comp][j])

(***************************************************************************)
(* C10: the per-feature write partition.  With the features processed in   *)
(* any order, the rows of the features not yet processed are as the        *)
(* allocation left them, a failure happens only where the sequential loop  *)
(* fails, and once every feature is processed the arrays are those the     *)
(* sequential loop returns                                                 *)
(***************************************************************************)
ParMatchesLoop ==
    par # <<>> =>
        /\ \A f \in Features \ par[1].done :
              /\ par[1].st.values[f] = Uninit
              /\ par[1].deriv >= 1 => par[1].st.jacobian[f] = ZeroRows
              /\ par[1].deriv = 2 => par[1].st.hessian[f] = ZeroBlocks
        /\ par[1].st.exc # "" => res[1].status = "raised"
        /\ (par[1].st.exc = "" /\ par[1].done = Features) =>
              res[1] = Outcome(par[1].st, par[1].deriv)

\* two angle features processed at order 2, each with a Hessian
ParMatchesLoopWitness ==
    /\ par # <<>>
    /\ input.fam = "angle"
    /\ Len(input.idx) = 2
    /\ par[1].deriv = 2
    /\ par[1].st.exc = ""
    /\ par[1].done = {1, 2}
    /\ \A f \in Features : par[1].st.hessian[f] # ZeroBlocks

=============================================================================
